---- MODULE Spec2Model ----
(***************************************************************************)
(* Model of test_suites/generate_big_csv.py: a script that parses one      *)
(* option (--rows, type=int), prints a CSV header and then one data line   *)
(* per row index.                                                          *)
(*                                                                         *)
(* Text is modelled as sequences of one-character strings, so that the     *)
(* formatting of the f-string and the parsing done by int() are computed   *)
(* character by character.  The command line is sys.argv[1:] restricted to *)
(* the option the script declares: either empty, or one token              *)
(* --rows=VALUE, represented by the characters of VALUE.                   *)
(* Spec is one invocation of the script; SpecAgain invokes the same        *)
(* command line NumRuns times, one run after another.                      *)
(***************************************************************************)
EXTENDS Integers, Sequences, FiniteSets, TLC

\* ---------------------------------------------------------------- bounds
MaxArgLen == 3
MaxRows == 200
NumRuns == 2

Runs == 1..NumRuns

\* ------------------------------------------------------------------ state
VARIABLES
  argv,      \* the command line shared by all runs: <<>> or <<VALUE>>
  pc,        \* pc[r]: position of run r in the script
  rows,      \* rows[r]: args.rows of run r: None or <<n>>
  i,         \* i[r]: the next value the for loop of run r takes
  out,       \* out[r]: lines written to stdout by run r
  err,       \* err[r]: messages written to stderr by run r
  status     \* status[r]: exit status of run r: <<>> while running

vars == <<argv, pc, rows, i, out, err, status>>

Halted(r) == pc[r] \in {"done", "failed"}

\* Characters the VALUE of --rows is drawn from.
Alphabet == {"0", "1", "2", "-", "+", "_", " ", "x"}

ArgStrings == UNION {[1..n -> Alphabet] : n \in 0..MaxArgLen}

\* ------------------------------------------------------- Python's int(str)
None == <<>>

DigitChars == {"0", "1", "2", "3", "4", "5", "6", "7", "8", "9"}

DigitVal(c) ==
  CASE c = "0" -> 0 [] c = "1" -> 1 [] c = "2" -> 2 [] c = "3" -> 3
    [] c = "4" -> 4 [] c = "5" -> 5 [] c = "6" -> 6 [] c = "7" -> 7
    [] c = "8" -> 8 [] c = "9" -> 9

RECURSIVE LStrip(_)
LStrip(s) == IF s # <<>> /\ Head(s) = " " THEN LStrip(Tail(s)) ELSE s

RECURSIVE RStrip(_)
RStrip(s) ==
  IF s # <<>> /\ s[Len(s)] = " " THEN RStrip(SubSeq(s, 1, Len(s) - 1)) ELSE s

Strip(s) == RStrip(LStrip(s))

\* Digits with single underscores allowed only between two digits.
WellFormedDigits(b) ==
  /\ b # <<>>
  /\ \A k \in 1..Len(b) : b[k] \in DigitChars \cup {"_"}
  /\ b[1] \in DigitChars
  /\ b[Len(b)] \in DigitChars
  /\ \A k \in 1..(Len(b) - 1) : ~(b[k] = "_" /\ b[k + 1] = "_")

RECURSIVE DigitsValue(_, _)
DigitsValue(b, acc) ==
  IF b = <<>> THEN acc
  ELSE IF Head(b) = "_" THEN DigitsValue(Tail(b), acc)
  ELSE DigitsValue(Tail(b), 10 * acc + DigitVal(Head(b)))

\* int(s): <<n>> when s is an integer literal, None when int raises
\* ValueError.
PyInt(s) ==
  LET t == Strip(s)
      signed == t # <<>> /\ t[1] \in {"+", "-"}
      body == IF signed THEN Tail(t) ELSE t
      mag == DigitsValue(body, 0)
  IN IF ~WellFormedDigits(body) THEN None
     ELSE IF signed /\ t[1] = "-" THEN <<0 - mag>> ELSE <<mag>>

\* ------------------------------------------------------------ formatting
RECURSIVE NatToStr(_)
NatToStr(n) ==
  LET d == SubSeq(<<"0", "1", "2", "3", "4", "5", "6", "7", "8", "9">>,
                  (n % 10) + 1, (n % 10) + 1)
  IN IF n < 10 THEN d ELSE NatToStr(n \div 10) \o d

\* str(n) as used by the f-string fields {client} and {i}.
IntToStr(n) == IF n < 0 THEN <<"-">> \o NatToStr(0 - n) ELSE NatToStr(n)

Header ==
  <<"t", "y", "p", "e", ",", "c", "l", "i", "e", "n", "t", ",",
    "t", "x", ",", "a", "m", "o", "u", "n", "t">>

\* Variants of the client computation used to test the properties below.
ClientOffByOne(idx) == idx % 127

ClientSkewed(idx) == (2 * idx) % 128

ClientSeeded(idx) == (idx + Cardinality({r \in Runs : Halted(r)})) % 128

Client(idx) == idx % 128

\* Variants of the row formatting: a one-based tx, and the row index
\* written in the amount column.
RowLineOneBased(idx) ==
  <<"d", "e", "p", "o", "s", "i", "t", ",">> \o IntToStr(Client(idx))
    \o <<",">> \o IntToStr(idx + 1) \o <<",", "1">>

RowLineAmount(idx) ==
  <<"d", "e", "p", "o", "s", "i", "t", ",">> \o IntToStr(Client(idx))
    \o <<",">> \o IntToStr(idx) \o <<",">> \o IntToStr(idx)

RowLine(idx) ==
  <<"d", "e", "p", "o", "s", "i", "t", ",">> \o IntToStr(Client(idx))
    \o <<",">> \o IntToStr(idx) \o <<",", "1">>

\* What argparse writes to stderr before exiting with status 2, and what
\* the interpreter writes for an uncaught exception (status 1).
UsageError == <<"usage", "error: argument --rows: invalid int value">>
Traceback == <<"Traceback", "TypeError">>

ArgvOk(a) ==
  \/ a = <<>>
  \/ PyInt(a[1]) = None
  \/ PyInt(a[1])[1] <= MaxRows

Init ==
  /\ argv \in {a \in {<<>>} \cup {<<s>> : s \in ArgStrings} : ArgvOk(a)}
  /\ pc = [r \in Runs |-> "idle"]
  /\ rows = [r \in Runs |-> None]
  /\ i = [r \in Runs |-> 0]
  /\ out = [r \in Runs |-> <<>>]
  /\ err = [r \in Runs |-> <<>>]
  /\ status = [r \in Runs |-> <<>>]

\* The script is started; run r + 1 is started after run r has exited.
Invoke(r) ==
  /\ pc[r] = "idle"
  /\ IF r = 1 THEN TRUE ELSE Halted(r - 1)
  /\ pc' = [pc EXCEPT ![r] = "parse"]
  /\ UNCHANGED <<argv, rows, i, out, err, status>>

\* Variant: a VALUE that int() rejects is replaced by 0 instead of
\* stopping the run.
ParseArgsLenient(r) ==
  /\ pc[r] = "parse"
  /\ rows' = [rows EXCEPT ![r] =
                IF argv = <<>> THEN None
                ELSE IF PyInt(argv[1]) = None THEN <<0>> ELSE PyInt(argv[1])]
  /\ pc' = [pc EXCEPT ![r] = "header"]
  /\ UNCHANGED <<argv, i, out, err, status>>

\* Variant: a negative row count is rejected like an unparseable one.
ParseArgsRejectNegative(r) ==
  /\ pc[r] = "parse"
  /\ IF argv = <<>>
       THEN /\ rows' = [rows EXCEPT ![r] = None]
            /\ pc' = [pc EXCEPT ![r] = "header"]
            /\ UNCHANGED <<err, status>>
       ELSE IF PyInt(argv[1]) = None \/ PyInt(argv[1])[1] < 0
         THEN /\ err' = [err EXCEPT ![r] = @ \o UsageError]
              /\ status' = [status EXCEPT ![r] = <<2>>]
              /\ pc' = [pc EXCEPT ![r] = "failed"]
              /\ UNCHANGED rows
         ELSE /\ rows' = [rows EXCEPT ![r] = PyInt(argv[1])]
              /\ pc' = [pc EXCEPT ![r] = "header"]
              /\ UNCHANGED <<err, status>>
  /\ UNCHANGED <<argv, i, out>>

\* args = parser.parse_args(): --rows is optional with default None; a
\* VALUE that int() rejects makes the parser print usage and exit(2).
ParseArgs(r) ==
  /\ pc[r] = "parse"
  /\ IF argv = <<>>
       THEN /\ rows' = [rows EXCEPT ![r] = None]
            /\ pc' = [pc EXCEPT ![r] = "header"]
            /\ UNCHANGED <<err, status>>
       ELSE IF PyInt(argv[1]) = None
         THEN /\ err' = [err EXCEPT ![r] = @ \o UsageError]
              /\ status' = [status EXCEPT ![r] = <<2>>]
              /\ pc' = [pc EXCEPT ![r] = "failed"]
              /\ UNCHANGED rows
         ELSE /\ rows' = [rows EXCEPT ![r] = PyInt(argv[1])]
              /\ pc' = [pc EXCEPT ![r] = "header"]
              /\ UNCHANGED <<err, status>>
  /\ UNCHANGED <<argv, i, out>>

\* print("type,client,tx,amount")
PrintHeader(r) ==
  /\ pc[r] = "header"
  /\ out' = [out EXCEPT ![r] = Append(@, Header)]
  /\ pc' = [pc EXCEPT ![r] = "range"]
  /\ UNCHANGED <<argv, rows, i, err, status>>

\* range(0, args.rows): TypeError when args.rows is None.
Range(r) ==
  /\ pc[r] = "range"
  /\ IF rows[r] = None
       THEN /\ err' = [err EXCEPT ![r] = @ \o Traceback]
            /\ status' = [status EXCEPT ![r] = <<1>>]
            /\ pc' = [pc EXCEPT ![r] = "failed"]
            /\ UNCHANGED i
       ELSE /\ i' = [i EXCEPT ![r] = 0]
            /\ pc' = [pc EXCEPT ![r] = "loop"]
            /\ UNCHANGED <<err, status>>
  /\ UNCHANGED <<argv, rows, out>>

\* Variant: the loop bound is inclusive.
PrintRowInclusive(r) ==
  /\ pc[r] = "loop"
  /\ i[r] <= rows[r][1]
  /\ out' = [out EXCEPT ![r] = Append(@, RowLine(i[r]))]
  /\ i' = [i EXCEPT ![r] = @ + 1]
  /\ UNCHANGED <<argv, pc, rows, err, status>>

\* One iteration of the for loop.
PrintRow(r) ==
  /\ pc[r] = "loop"
  /\ i[r] < rows[r][1]
  /\ out' = [out EXCEPT ![r] = Append(@, RowLine(i[r]))]
  /\ i' = [i EXCEPT ![r] = @ + 1]
  /\ UNCHANGED <<argv, pc, rows, err, status>>

\* Variant: the script ends with a failure status.
ExitFailure(r) ==
  /\ pc[r] = "loop"
  /\ i[r] >= rows[r][1]
  /\ pc' = [pc EXCEPT ![r] = "done"]
  /\ status' = [status EXCEPT ![r] = <<1>>]
  /\ UNCHANGED <<argv, rows, i, out, err>>

\* The range is exhausted; the script falls off its end.
Exit(r) ==
  /\ pc[r] = "loop"
  /\ i[r] >= rows[r][1]
  /\ pc' = [pc EXCEPT ![r] = "done"]
  /\ status' = [status EXCEPT ![r] = <<0>>]
  /\ UNCHANGED <<argv, rows, i, out, err>>

Step(r) ==
  \/ Invoke(r)
  \/ ParseArgs(r)
  \/ PrintHeader(r)
  \/ Range(r)
  \/ PrintRow(r)
  \/ Exit(r)

\* One invocation of the script.
Next == Step(1)

Spec == Init /\ [][Next]_vars

\* The interpreter runs a started script to its end.
FairSpec == Spec /\ WF_vars(Step(1))

\* The same command line invoked NumRuns times, one run after another.
NextAgain == \E r \in Runs : Step(r)

SpecAgain == Init /\ [][NextAgain]_vars

\* ------------------------------------------------ reading the output back
\* The comma-separated fields of a line.
RECURSIVE SplitComma(_, _, _)
SplitComma(s, cur, acc) ==
  IF s = <<>> THEN Append(acc, cur)
  ELSE IF Head(s) = "," THEN SplitComma(Tail(s), <<>>, Append(acc, cur))
  ELSE SplitComma(Tail(s), Append(cur, Head(s)), acc)

Fields(line) == SplitComma(line, <<>>, <<>>)

\* A bare decimal numeral: digits only, no sign, no leading zero.
IsNumeral(f) ==
  /\ f # <<>>
  /\ \A k \in 1..Len(f) : f[k] \in DigitChars
  /\ Len(f) = 1 \/ f[1] # "0"

RECURSIVE NumeralValue(_)
NumeralValue(f) ==
  IF f = <<>> THEN 0
  ELSE 10 * NumeralValue(SubSeq(f, 1, Len(f) - 1)) + DigitVal(f[Len(f)])

DepositWord == <<"d", "e", "p", "o", "s", "i", "t">>

\* Number of data lines run r has written.
NumData(r) == IF out[r] = <<>> THEN 0 ELSE Len(out[r]) - 1

\* The fields of the k-th data line (k = 0 is output line 2).
DataFields(r, k) == Fields(out[r][k + 2])

TxOf(r, k) == NumeralValue(DataFields(r, k)[3])

\* The command line carries an integer that is zero or negative.
AsksNonPositive ==
  argv # <<>> /\ PyInt(argv[1]) # None /\ PyInt(argv[1])[1] <= 0

Max0(n) == IF n < 0 THEN 0 ELSE n

\* ----------------------------------------------------------------- claims

\* C1: for every non-negative rows, a completed run has written exactly
\* rows + 1 lines; the header is the first line, is written before any data
\* row and occurs exactly once.
C1_HeaderThenRows ==
  \A r \in Runs :
    /\ out[r] # <<>> => out[r][1] = Header
    /\ \A k \in 2..Len(out[r]) : out[r][k] # Header
    /\ (pc[r] = "done" /\ rows[r][1] >= 0) => Len(out[r]) = rows[r][1] + 1

C1_Witness ==
  \E r \in Runs : pc[r] = "done" /\ rows[r][1] >= 129 /\ Len(out[r]) >= 130

\* C2: when --rows is missing from the command line, nothing (not even the
\* header) is written to stdout and the run halts with a non-zero status.
C2_MissingRowsNoOutput ==
  \A r \in Runs :
    argv = <<>> =>
      /\ out[r] = <<>>
      /\ pc[r] # "done"
      /\ Halted(r) => status[r] \notin {<<>>, <<0>>}

\* C3: when the value of --rows is not parseable as an integer, parsing
\* fails before the header is printed: stdout stays empty, a usage message
\* goes to stderr and the run halts with a non-zero status.
C3_BadValueRejected ==
  \A r \in Runs :
    (argv # <<>> /\ PyInt(argv[1]) = None) =>
      /\ out[r] = <<>>
      /\ pc[r] \in {"idle", "parse", "failed"}
      /\ pc[r] = "failed" =>
           /\ status[r] \notin {<<>>, <<0>>}
           /\ err[r] # <<>> /\ err[r][1] = "usage"

C3_Witness ==
  \E r \in Runs :
    /\ argv # <<>> /\ PyInt(argv[1]) = None /\ Len(argv[1]) >= 2
    /\ pc[r] = "failed" /\ err[r] # <<>>

\* C4: at every point of a run the k-th data line (output line k + 2)
\* carries tx = k: tx starts at 0 and increases by one per line, without
\* gaps or repeats.
C4_TxIsPosition ==
  \A r \in Runs :
    \A k \in 0..(NumData(r) - 1) :
      LET f == DataFields(r, k) IN
        /\ Len(f) >= 3
        /\ IsNumeral(f[3])
        /\ NumeralValue(f[3]) = k

C4_Witness == \E r \in Runs : pc[r] = "loop" /\ NumData(r) >= 130

\* C5: on every data line client = tx mod 128, within 0..127; client = tx
\* for tx in 0..127 and client = 0 at tx = 128; for rows >= 1 the last line
\* of a completed run is deposit,<(rows-1) mod 128>,<rows-1>,1, which for
\* rows = 200 is deposit,71,199,1.
C5_ClientIsTxMod128 ==
  \A r \in Runs :
    /\ \A k \in 0..(NumData(r) - 1) :
         LET f == DataFields(r, k) IN
           /\ Len(f) >= 3 /\ IsNumeral(f[2]) /\ IsNumeral(f[3])
           /\ LET client == NumeralValue(f[2])
                  tx == NumeralValue(f[3])
              IN /\ client = tx % 128
                 /\ client \in 0..127
                 /\ tx <= 127 => client = tx
                 /\ tx = 128 => client = 0
    /\ (pc[r] = "done" /\ rows[r][1] >= 1) =>
         LET f == DataFields(r, rows[r][1] - 1) IN
           /\ NumData(r) = rows[r][1]
           /\ Len(f) = 4
           /\ f[1] = DepositWord
           /\ IsNumeral(f[2]) /\ NumeralValue(f[2]) = (rows[r][1] - 1) % 128
           /\ IsNumeral(f[3]) /\ NumeralValue(f[3]) = rows[r][1] - 1
           /\ f[4] = <<"1">>
    /\ (pc[r] = "done" /\ rows[r] = <<200>>) =>
         out[r][Len(out[r])] =
           <<"d", "e", "p", "o", "s", "i", "t", ",", "7", "1", ",",
             "1", "9", "9", ",", "1">>

C5_Witness ==
  \E r \in Runs : pc[r] = "done" /\ rows[r] = <<200>> /\ NumData(r) = 200

\* C6: every data line has the four fields type, client, tx, amount in that
\* order: the literal deposit, the client number, the row index and the
\* literal 1.
C6_RowShape ==
  \A r \in Runs :
    \A k \in 0..(NumData(r) - 1) :
      LET f == DataFields(r, k) IN
        /\ Len(f) = 4
        /\ f[1] = DepositWord
        /\ IsNumeral(f[2]) /\ NumeralValue(f[2]) \in 0..127
        /\ IsNumeral(f[3]) /\ NumeralValue(f[3]) = k
        /\ f[4] = <<"1">>

C6_Witness ==
  \E r \in Runs : NumData(r) >= 130 /\ DataFields(r, 129)[4] = <<"1">>

\* C7: a negative or zero rows is not an error: the header is still
\* written, no data row is written, nothing goes to stderr, and the run
\* ends with status 0 and the header as its whole output.
C7_NonPositiveRows ==
  \A r \in Runs :
    AsksNonPositive =>
      /\ pc[r] # "failed"
      /\ err[r] = <<>>
      /\ NumData(r) = 0
      /\ pc[r] \in {"range", "loop", "done"} => out[r] = <<Header>>
      /\ pc[r] = "done" => status[r] = <<0>>
      /\ pc[r] = "loop" => ENABLED Exit(r)

C7_Witness ==
  \E r \in Runs :
    /\ pc[r] = "done" /\ rows[r][1] < 0
    /\ out[r] = <<Header>> /\ status[r] = <<0>>

C9_Terminates ==
  /\ \A r \in Runs :
       (pc[r] = "header" /\ rows[r] # None)
         ~> (pc[r] = "done" /\ status[r] = <<0>>)
  /\ [](\A r \in Runs :
          status[r] = <<0>> =>
            /\ pc[r] = "done"
            /\ Len(out[r]) = 1 + Max0(rows[r][1])
            /\ NumData(r) >= 1 =>
                 /\ Len(DataFields(r, NumData(r) - 1)) >= 3
                 /\ TxOf(r, NumData(r) - 1) = rows[r][1] - 1)
  /\ [][\A r \in Runs :
          pc[r] = "done" => (out'[r] = out[r] /\ pc'[r] = "done")]_vars

C9_Witness ==
  \E r \in Runs :
    pc[r] = "done" /\ status[r] = <<0>> /\ rows[r][1] >= 129
      /\ NumData(r) = rows[r][1]

\* C10: client assignment is a balanced round-robin: at every point of a
\* run the numbers of rows written for any two client ids in 0..127 differ
\* by at most 1, each data row's client id is the previous one plus 1
\* modulo 128, and when the number of rows written is a multiple of 128
\* every client id has received that number divided by 128 rows.
\* The client id of the k-th data line of run r (k = 0 is output line 2);
\* -1 stands for a client field that is not a numeral in 0..127.
ClientOf(r, k) ==
  LET f == DataFields(r, k)
      c == IF Len(f) >= 2 /\ IsNumeral(f[2]) THEN NumeralValue(f[2])
           ELSE 0 - 1
  IN IF c \in 0..127 THEN c ELSE 0 - 1

\* The client ids of the data lines of run r, in output order.
ClientSeq(r) == [k \in 1..NumData(r) |-> ClientOf(r, k - 1)] \o <<>>

\* RowsPerClient(cl)[c + 1]: how many of the client ids cl are c.
RowsPerClient(cl) ==
  [c \in 1..128 |-> Cardinality({k \in 1..Len(cl) : cl[k] = c - 1})] \o <<>>

AtMostOneApart(cnt) ==
  /\ \A c \in 1..128 : cnt[c] \in {cnt[1] - 1, cnt[1], cnt[1] + 1}
  /\ ~(\E c1 \in 1..128 : cnt[c1] = cnt[1] - 1
        /\ \E c2 \in 1..128 : cnt[c2] = cnt[1] + 1)

C10_RoundRobin ==
  \A r \in Runs :
    LET cl == ClientSeq(r) IN
      /\ \A k \in 1..Len(cl) : cl[k] \in 0..127
      /\ \A k \in 2..Len(cl) : cl[k] = (cl[k - 1] + 1) % 128
      /\ LET cnt == RowsPerClient(cl) IN
           /\ AtMostOneApart(cnt)
           /\ Len(cl) % 128 = 0 =>
                \A c \in 1..128 : cnt[c] = Len(cl) \div 128

C10_Witness ==
  \E r \in Runs :
    /\ NumData(r) = 128
    /\ LET cl == ClientSeq(r)
           cnt == RowsPerClient(cl)
       IN \A c \in 1..128 : cnt[c] = 1
====
